---- MODULE Spec2Model ----
(***************************************************************************)
(* Model of awsp: the interactive profile selector (src/index.js) and the  *)
(* two shell wrappers around it (src/run.sh, and src/unnamed/part_001      *)
(* which adds role-ARN support).                                           *)
(*                                                                         *)
(* Text is modelled as a sequence of atoms.  An atom is a character, or a  *)
(* fixed piece of text that the code only ever treats as a whole, such as  *)
(* the heading prefix "[profile " or a credential value.  A file is a      *)
(* sequence of length 0 (no such file) or 1 (the file's content).          *)
(***************************************************************************)
EXTENDS Integers, Sequences, FiniteSets, TLC

VARIABLES
  wrapper,          \* which wrapper script is sourced: "run.sh" or "part_001"
  args,             \* the command line: [opts |-> <<[flag, arg]>>, pos |-> <<argument>>]
  pc,               \* position of the run
  shellVars,        \* variables of the invoking shell: name -> value (DOMAIN = the set ones)
  exported,         \* names carrying the export attribute
  initial,          \* snapshot taken at invocation: [vars, exported, profileFile, credentialsFile]
  awsConfigFile,    \* ~/.aws/config
  profileFile,      \* ~/.awsp
  credentialsFile,  \* ~/.awsp-credentials
  choices,          \* the choice list offered by promptProfileChoice
  profileChoice,    \* the selection made in index.js
  roleQuery,        \* outcomes of the two queries of hasRoleConfiguration
  roleCapable,      \* result of hasRoleConfiguration: "none", "yes", "no"
  mfaInput,         \* text typed at the MFA prompt
  mfaValid,         \* what validate returned for mfaInput ("none" before it ran)
  mfaCode,          \* the answer of the MFA prompt
  stsCalls,         \* the AssumeRole invocations made, in order
  stsResponse,      \* what the last AssumeRole invocation returned
  assumeResult,     \* outcome reported by the role assumption client: "none", "ok", "failed"
  clipboard,        \* the desktop clipboard
  stdout,           \* lines echoed by the wrapper
  nodeStarted,      \* whether the interactive subprocess was run
  nodeExit,         \* exit status of index.js (-1 while it has none)
  exitStatus,       \* exit status of the wrapper (-1 while it has none)
  shells,           \* two concurrent invocations: shell -> its variables and position
  fileWriter        \* which shell last wrote ~/.awsp and ~/.awsp-credentials

vars == <<wrapper, args, pc, shellVars, exported, initial, awsConfigFile,
          profileFile, credentialsFile, choices, profileChoice, roleQuery,
          roleCapable, mfaInput, mfaValid, mfaCode, stsCalls, stsResponse,
          assumeResult, clipboard, stdout, nodeStarted, nodeExit, exitStatus,
          shells, fileWriter>>

----------------------------------------------------------------------------
(* Text helpers *)

NoFile == <<>>
File(content) == <<content>>
Exists(file) == file # NoFile
Content(file) == file[1]

Whitespace == {" ", "\n"}

Range(s) == {s[i] : i \in 1..Len(s)}

\* String.prototype.trim: drops leading and trailing whitespace
RECURSIVE Trim(_)
Trim(s) ==
  IF s = <<>> THEN s
  ELSE IF Head(s) \in Whitespace THEN Trim(Tail(s))
  ELSE IF s[Len(s)] \in Whitespace THEN Trim(SubSeq(s, 1, Len(s) - 1))
  ELSE s

\* $(...) command substitution: drops trailing newlines only
RECURSIVE StripTrailingNewlines(_)
StripTrailingNewlines(s) ==
  IF s # <<>> /\ s[Len(s)] = "\n" THEN StripTrailingNewlines(SubSeq(s, 1, Len(s) - 1))
  ELSE s

\* Shell word splitting of one line on blanks
RECURSIVE SplitWords(_, _)
SplitWords(s, cur) ==
  IF s = <<>> THEN (IF cur = <<>> THEN <<>> ELSE <<cur>>)
  ELSE IF Head(s) \in Whitespace
       THEN (IF cur = <<>> THEN <<>> ELSE <<cur>>) \o SplitWords(Tail(s), <<>>)
       ELSE SplitWords(Tail(s), Append(cur, Head(s)))

IsShellWord(s) == s # <<>> /\ \A i \in 1..Len(s) : s[i] \notin Whitespace

----------------------------------------------------------------------------
(* Program constants *)

awsRegion == <<"ap-northeast-1">>
DEFAULTS_profile == <<"default">>
mfaCodeLength == 6
ArnAccountDigits == 12

AsciiDigits == {"0", "1", "2", "3", "4", "5", "6", "7", "8", "9"}

ProfileVars == {"AWS_PROFILE", "AWS_DEFAULT_PROFILE"}

----------------------------------------------------------------------------
(* src/index.js: promptProfileChoice *)

LastIndexOf(s, a) ==
  IF \E j \in 1..Len(s) : s[j] = a
  THEN CHOOSE j \in 1..Len(s) : s[j] = a /\ \A k \in (j + 1)..Len(s) : s[k] # a
  ELSE 0

\* REGEX.profile = /\[profile .*]/g on one line: the leftmost "[profile " that
\* has a "]" after it, up to the last "]" of the line (greedy, no newline).
\* Result: the matches of the line, at most one.
RegexProfileMatch(line) ==
  LET last == LastIndexOf(line, "]")
      starts == {i \in 1..Len(line) : line[i] = "[profile " /\ i < last}
  IN  IF starts = {} THEN <<>>
      ELSE LET first == CHOOSE i \in starts : \A k \in starts : i <= k
           IN  <<SubSeq(line, first, last)>>

\* data.match(REGEX.profile): all matches, in order of appearance
RECURSIVE RegexProfileMatches(_)
RegexProfileMatches(data) ==
  IF data = <<>> THEN <<>>
  ELSE RegexProfileMatch(Head(data)) \o RegexProfileMatches(Tail(data))

\* match.replace(REGEX.bracketsRemoval, ''): every "[profile " and "]" removed
BracketsRemoval(match) == SelectSeq(match, LAMBDA a : a \notin {"[profile ", "]"})

\* The choices handed to inquirer; << >> when promptProfileChoice returns undefined
promptProfileChoice(data) ==
  LET matches == RegexProfileMatches(data)
  IN  IF matches = <<>> THEN <<>>
      ELSE Append([i \in 1..Len(matches) |-> BracketsRemoval(matches[i])], DEFAULTS_profile)

----------------------------------------------------------------------------
(* src/index.js: promptMfaCode *)

RejectMessage == "Please enter a valid 6-digit MFA code"

\* /^\d+$/.test(value): no u flag, so \d is [0-9]; no m flag, so $ is the end
RegexAllDigits(value) == Len(value) >= 1 /\ \A i \in 1..Len(value) : value[i] \in AsciiDigits

\* validate without its digit test
validateLengthOnly(value) ==
  IF value = <<>> \/ Len(value) # mfaCodeLength THEN RejectMessage ELSE "true"

\* validate returns true (here "true") or the rejection message
validate(value) ==
  IF value = <<>> \/ Len(value) # mfaCodeLength \/ ~RegexAllDigits(value)
  THEN RejectMessage
  ELSE "true"

----------------------------------------------------------------------------
(* The AWS CLI, as seen by the tool *)

\* Outcome of `aws configure get <profile>.<key>`: exit status and standard output
QueryFailed == [ok |-> FALSE, out |-> <<>>]
QueryOutcomes(value) ==
  {QueryFailed, [ok |-> TRUE, out |-> <<>>], [ok |-> TRUE, out |-> <<"\n">>],
   [ok |-> TRUE, out |-> <<value, "\n">>]}

\* The command line is built by interpolation without quoting. A profile name
\* that is not one shell word reaches the AWS CLI as several arguments and the
\* query fails.
QueryOutcomesFor(profile, value) ==
  IF IsShellWord(profile) THEN QueryOutcomes(value) ELSE {QueryFailed}

RoleArnValue == "arn:aws:iam::123456789012:role/MyRole"
MfaSerialValue == "arn:aws:iam::123456789012:mfa/user"

\* Standard output of `aws sts assume-role`: malformed text, or a JSON document
\* given by its value. A JSON object is a function from its keys.
Malformed == [json |-> FALSE]
Json(value) == [json |-> TRUE, value |-> value]
CredentialFields == {"AccessKeyId", "SecretAccessKey", "SessionToken"}
FullCredentials ==
  [AccessKeyId |-> "AKIA1", SecretAccessKey |-> "SECRET1", SessionToken |-> "TOKEN1"]
Restrict(f, S) == [k \in S |-> f[k]]
StsBodies ==
  {Malformed, Json([Other |-> "x"])}
  \cup {Json([Credentials |-> Restrict(FullCredentials, S)]) :
          S \in {CredentialFields} \cup {CredentialFields \ {k} : k \in CredentialFields}}
StsResponses ==
  {[exit |-> 255, body |-> Malformed]} \cup {[exit |-> 0, body |-> b] : b \in StsBodies}

----------------------------------------------------------------------------
(* Shell state: assignment, export, unset, eval of export lines *)

ShellState(v, e) == [vars |-> v, exported |-> e]

SetVar(v, name, value) == [n \in DOMAIN v \cup {name} |-> IF n = name THEN value ELSE v[n]]
UnsetVar(v, name) == [n \in DOMAIN v \ {name} |-> v[n]]

\* "$NAME": the empty string when NAME is unset
Expand(v, name) == IF name \in DOMAIN v THEN v[name] ELSE <<>>

\* export NAME=value
Export(st, name, value) == ShellState(SetVar(st.vars, name, value), st.exported \cup {name})

\* unset NAME
Unset(st, name) == ShellState(UnsetVar(st.vars, name), st.exported \ {name})

ExportLine(name, value) == <<"export", " ", name, "=">> \o value

\* The words after `export`: NAME=value assigns and exports, NAME exports
RECURSIVE ExportWords(_, _)
ExportWords(words, st) ==
  IF words = <<>> THEN st
  ELSE LET w == Head(words)
           next == IF Len(w) >= 2 /\ w[2] = "="
                   THEN Export(st, w[1], SubSeq(w, 3, Len(w)))
                   ELSE ShellState(st.vars, st.exported \cup {w[1]})
       IN  ExportWords(Tail(words), next)

\* eval of the lines of a file; only export commands occur in the files the
\* tool writes, any other line is left without effect here
RECURSIVE EvalLines(_, _)
EvalLines(lines, st) ==
  IF lines = <<>> THEN st
  ELSE LET words == SplitWords(Head(lines), <<>>)
           next == IF words # <<>> /\ words[1] = <<"export">>
                   THEN ExportWords(Tail(words), st)
                   ELSE st
       IN  EvalLines(Tail(lines), next)

----------------------------------------------------------------------------
(* src/index.js: hasRoleConfiguration, copyToClipboard, performAssumeRole *)

\* hasRoleConfiguration with || in place of &&
hasRoleConfigurationEither(q1, q2) ==
  IF ~q1.ok \/ ~q2.ok THEN FALSE
  ELSE Trim(q1.out) # <<>> \/ Trim(q2.out) # <<>>

\* roleArn && mfaSerial after both execSync calls; a failing execSync throws
\* and the catch returns false (the second query is not made when the first
\* throws, which changes nothing here)
hasRoleConfiguration(q1, q2) ==
  IF ~q1.ok \/ ~q2.ok THEN FALSE
  ELSE Trim(q1.out) # <<>> /\ Trim(q2.out) # <<>>

\* A property read rendered in a template literal: a missing one reads "undefined"
JsField(obj, k) == IF k \in DOMAIN obj THEN obj[k] ELSE "undefined"

ClipboardLine(name, value) == <<name, "=">> \o value

ClipboardContent(creds, region) ==
  << ClipboardLine("AWS_ACCESS_KEY_ID", <<creds.accessKeyId>>),
     ClipboardLine("AWS_SECRET_ACCESS_KEY", <<creds.secretAccessKey>>),
     ClipboardLine("AWS_REGION", region),
     ClipboardLine("AWS_SESSION_TOKEN", <<creds.sessionToken>>) >>

\* credentialsContent with the session token line left out
CredentialsContentNoToken(creds, profile) ==
  << ExportLine("AWS_ACCESS_KEY_ID", <<creds.accessKeyId>>),
     ExportLine("AWS_SECRET_ACCESS_KEY", <<creds.secretAccessKey>>),
     ExportLine("AWS_REGION", awsRegion),
     ExportLine("AWS_PROFILE", profile),
     ExportLine("AWS_DEFAULT_PROFILE", profile) >>

\* credentialsContent of performAssumeRole
CredentialsContent(creds, profile) ==
  << ExportLine("AWS_ACCESS_KEY_ID", <<creds.accessKeyId>>),
     ExportLine("AWS_SECRET_ACCESS_KEY", <<creds.secretAccessKey>>),
     ExportLine("AWS_REGION", awsRegion),
     ExportLine("AWS_SESSION_TOKEN", <<creds.sessionToken>>),
     ExportLine("AWS_PROFILE", profile),
     ExportLine("AWS_DEFAULT_PROFILE", profile) >>

NoSerial == <<>>

StsCall(client, source, roleArn, session, mfa) ==
  [client |-> client, profile |-> source, roleArn |-> roleArn,
   sessionName |-> session, mfa |-> mfa]

\* --serial-number and --token-code of a call, when given
WithMfa(serial, code) == <<[serial |-> serial, token |-> code]>>

\* performAssumeRole(profile, mfaCode) given the outcomes of its two
\* getAwsConfig queries, of the AWS CLI call and of pbcopy.
\* Result: what it returns, the calls it made, the files and clipboard after.
performAssumeRole(profile, code, q1, q2, resp, clipOk, credFile, clip) ==
  LET unchanged(calls) ==
        [ok |-> FALSE, calls |-> calls, credentialsFile |-> credFile, clipboard |-> clip]
      call == StsCall("index.js", DEFAULTS_profile, Trim(q1.out),
                      profile \o <<"-session">>, WithMfa(Trim(q2.out), code))
  IN  IF ~q1.ok \/ ~q2.ok THEN unchanged(<<>>)                  \* getAwsConfig throws
      ELSE IF resp.exit # 0 THEN unchanged(<<call>>)            \* execSync throws
      ELSE IF ~resp.body.json THEN unchanged(<<call>>)          \* JSON.parse throws
      ELSE IF "Credentials" \notin DOMAIN resp.body.value
           THEN unchanged(<<call>>)                             \* TypeError on undefined
      ELSE LET c == resp.body.value["Credentials"]
               creds == [accessKeyId |-> JsField(c, "AccessKeyId"),
                         secretAccessKey |-> JsField(c, "SecretAccessKey"),
                         sessionToken |-> JsField(c, "SessionToken")]
           IN  [ok |-> TRUE, calls |-> <<call>>,
                credentialsFile |-> File(CredentialsContent(creds, profile)),
                clipboard |-> IF clipOk THEN File(ClipboardContent(creds, awsRegion)) ELSE clip]

----------------------------------------------------------------------------
(* The wrappers: src/run.sh and src/unnamed/part_001 *)

Wrappers == {"run.sh", "part_001"}

\* Lines 5 and 8 of both wrappers, run in the invoking shell (the wrapper is
\* sourced): AWS_PROFILE="$AWS_PROFILE" and AWS_REGION="ap-northeast-1"
ScriptPreamble(st) ==
  ShellState(SetVar(SetVar(st.vars, "AWS_PROFILE", Expand(st.vars, "AWS_PROFILE")),
                    "AWS_REGION", awsRegion),
             st.exported)

\* The option letters each wrapper's getopts accepts
OptString(w) == IF w = "run.sh" THEN {"m"} ELSE {"m", "p"}

\* The getopts loop: the last -m and -p win; an unknown letter prints the usage
\* and exits 1
RECURSIVE Getopts(_, _, _)
Getopts(known, opts, acc) ==
  IF opts = <<>> THEN acc
  ELSE LET o == Head(opts)
       IN  IF o.flag \notin known THEN [acc EXCEPT !.ok = FALSE]
           ELSE IF o.flag = "m" THEN Getopts(known, Tail(opts), [acc EXCEPT !.mfa_code = o.arg])
           ELSE Getopts(known, Tail(opts), [acc EXCEPT !.source_profile = o.arg])

ParseOptions(w, opts) ==
  Getopts(OptString(w), opts, [ok |-> TRUE, mfa_code |-> <<>>, source_profile |-> <<>>])

Letters ==
  {"a", "b", "c", "d", "e", "f", "g", "h", "i", "j", "k", "l", "m", "n", "o", "p", "q",
   "r", "s", "t", "u", "v", "w", "x", "y", "z", "A", "B", "C", "D", "E", "F", "G", "H",
   "I", "J", "K", "L", "M", "N", "O", "P", "Q", "R", "S", "T", "U", "V", "W", "X", "Y", "Z"}

\* [a-zA-Z0-9+=,.@_/-]
ArnRoleChars == Letters \cup AsciiDigits \cup {"+", "=", ",", ".", "@", "_", "/", "-"}

\* ^arn:aws:iam::[0-9]{12}:role/[a-zA-Z0-9+=,.@_/-]+$ ; the two literal parts
\* are the atoms "arn:aws:iam::" and ":role/"
is_role_arn(input) ==
  /\ Len(input) >= ArnAccountDigits + 3
  /\ input[1] = "arn:aws:iam::"
  /\ \A i \in 2..(ArnAccountDigits + 1) : input[i] \in AsciiDigits
  /\ input[ArnAccountDigits + 2] = ":role/"
  /\ \A i \in (ArnAccountDigits + 3)..Len(input) : input[i] \in ArnRoleChars

\* The source profile fixed to "default", as in assume_role_with_mfa
DefaultSourceProfileFixed(v) == <<"default">>

\* ${AWS_PROFILE:-${AWS_DEFAULT_PROFILE:-default}}
DefaultSourceProfile(v) ==
  IF Expand(v, "AWS_PROFILE") # <<>> THEN v["AWS_PROFILE"]
  ELSE IF Expand(v, "AWS_DEFAULT_PROFILE") # <<>> THEN v["AWS_DEFAULT_PROFILE"]
  ELSE <<"default">>

\* echo "$AWS_STS_CREDENTIALS" | jq -r '.Credentials.<field>': nothing when jq
\* cannot parse its input, "null" when the path is missing
JqRaw(body, field) ==
  IF ~body.json THEN <<>>
  ELSE IF "Credentials" \notin DOMAIN body.value THEN <<"null">>
  ELSE IF field \notin DOMAIN body.value["Credentials"] THEN <<"null">>
  ELSE <<body.value["Credentials"][field]>>

\* The three assignments from the response; an assignment keeps the export
\* attribute a variable already has
ExtractCredentials(v, body) ==
  SetVar(SetVar(SetVar(v, "AWS_ACCESS_KEY_ID", JqRaw(body, "AccessKeyId")),
                "AWS_SECRET_ACCESS_KEY", JqRaw(body, "SecretAccessKey")),
         "AWS_SESSION_TOKEN", JqRaw(body, "SessionToken"))

\* clipboard_content of the wrappers, from the shell's variables
ShellClipboardContent(v) ==
  << ClipboardLine("AWS_ACCESS_KEY_ID", Expand(v, "AWS_ACCESS_KEY_ID")),
     ClipboardLine("AWS_SECRET_ACCESS_KEY", Expand(v, "AWS_SECRET_ACCESS_KEY")),
     ClipboardLine("AWS_REGION", Expand(v, "AWS_REGION")),
     ClipboardLine("AWS_SESSION_TOKEN", Expand(v, "AWS_SESSION_TOKEN")) >>

\* The echoed export lines at the end of run.sh's assume_role_with_mfa
EchoedExports(v, profile) ==
  << ExportLine("AWS_ACCESS_KEY_ID", Expand(v, "AWS_ACCESS_KEY_ID")),
     ExportLine("AWS_SECRET_ACCESS_KEY", Expand(v, "AWS_SECRET_ACCESS_KEY")),
     ExportLine("AWS_REGION", Expand(v, "AWS_REGION")),
     ExportLine("AWS_SESSION_TOKEN", Expand(v, "AWS_SESSION_TOKEN")),
     ExportLine("AWS_PROFILE", profile),
     ExportLine("AWS_DEFAULT_PROFILE", profile) >>

ShellResult(status, st, out, calls, clip) ==
  [status |-> status, st |-> st, stdout |-> out, calls |-> calls, clipboard |-> clip]

\* assume_role_with_mfa profile mfa_code, in wrapper w, given the outcomes of
\* its two queries, of the AWS CLI call and of pbcopy
assume_role_with_mfa(w, profile, mfa_code, q1, q2, resp, clipOk, st, clip) ==
  LET role_arn == StripTrailingNewlines(q1.out)
      mfa_serial == StripTrailingNewlines(q2.out)
      call == StsCall(w, <<"default">>, role_arn, profile \o <<"-session">>,
                      WithMfa(mfa_serial, mfa_code))
      v == ExtractCredentials(st.vars, resp.body)
      message == IF clipOk THEN <<"Credentials copied to clipboard">>
                 ELSE <<"Successfully assumed role (clipboard copy failed)">>
  IN  IF role_arn = <<>> \/ mfa_serial = <<>> THEN ShellResult(1, st, <<>>, <<>>, clip)
      ELSE IF resp.exit # 0 THEN ShellResult(1, st, <<>>, <<call>>, clip)
      ELSE ShellResult(0, ShellState(v, st.exported),
                       <<message>> \o (IF w = "run.sh" THEN EchoedExports(v, profile) ELSE <<>>),
                       <<call>>,
                       IF clipOk THEN File(ShellClipboardContent(v)) ELSE clip)

\* assume_role_with_arn role_arn source_profile mfa_code (part_001), given the
\* outcomes of the two mfa_serial queries (source profile, then default), of
\* the AWS CLI call and of pbcopy
assume_role_with_arn(role_arn, source_profile, mfa_code, q1, q2, resp, clipOk, st, clip) ==
  LET session_name == <<"awsp-", "epoch">>
      mfa_serial == StripTrailingNewlines(IF q1.ok THEN q1.out ELSE q1.out \o q2.out)
      mfa == IF mfa_code # <<>> THEN WithMfa(mfa_serial, mfa_code) ELSE NoSerial
      call == StsCall("part_001", source_profile, role_arn, session_name, mfa)
      v == ExtractCredentials(st.vars, resp.body)
      message == IF clipOk THEN <<"Successfully assumed role (credentials copied to clipboard)">>
                 ELSE <<"Successfully assumed role (clipboard copy failed)">>
  IN  IF mfa_code # <<>> /\ mfa_serial = <<>> THEN ShellResult(1, st, <<>>, <<>>, clip)
      ELSE IF resp.exit # 0 THEN ShellResult(1, st, <<>>, <<call>>, clip)
      ELSE ShellResult(0, ShellState(v, st.exported), <<message>>, <<call>>,
                       IF clipOk THEN File(ShellClipboardContent(v)) ELSE clip)

\* process_credentials_file with the file removed but never evaluated
process_credentials_file_no_eval(mode, st, credFile) ==
  IF Exists(credFile)
  THEN [st |-> st, stdout |-> IF mode = "silent" THEN <<>> ELSE Content(credFile),
        credentialsFile |-> NoFile]
  ELSE [st |-> st, stdout |-> <<>>, credentialsFile |-> credFile]

\* process_credentials_file without its rm -f
process_credentials_file_keep(mode, st, credFile) ==
  IF Exists(credFile)
  THEN [st |-> IF mode = "silent" THEN EvalLines(Content(credFile), st) ELSE st,
        stdout |-> IF mode = "silent" THEN <<>> ELSE Content(credFile),
        credentialsFile |-> credFile]
  ELSE [st |-> st, stdout |-> <<>>, credentialsFile |-> credFile]

\* process_credentials_file mode: eval (silent) or cat the file, then rm -f
process_credentials_file(mode, st, credFile) ==
  IF Exists(credFile)
  THEN [st |-> IF mode = "silent" THEN EvalLines(Content(credFile), st) ELSE st,
        stdout |-> IF mode = "silent" THEN <<>> ELSE Content(credFile),
        credentialsFile |-> NoFile]
  ELSE [st |-> st, stdout |-> <<>>, credentialsFile |-> credFile]

\* selected_profile="$(cat ~/.awsp 2>/dev/null)"
ReadSelectedProfile(file) ==
  IF Exists(file) THEN StripTrailingNewlines(Content(file)) ELSE <<>>

\* The interactive branch exporting the selected name before it looks for the
\* credentials file
InteractivePostProcessExportFirst(st, profFile, credFile) ==
  LET selected_profile == ReadSelectedProfile(profFile)
      named == Export(Export(st, "AWS_PROFILE", selected_profile),
                      "AWS_DEFAULT_PROFILE", selected_profile)
  IN  IF selected_profile = <<>>
      THEN [st |-> Unset(Unset(st, "AWS_PROFILE"), "AWS_DEFAULT_PROFILE"),
            stdout |-> <<>>, credentialsFile |-> credFile]
      ELSE IF Exists(credFile)
      THEN [st |-> named, stdout |-> <<>>, credentialsFile |-> NoFile]
      ELSE [st |-> named, stdout |-> <<<<"set profile: ">> \o selected_profile>>,
            credentialsFile |-> credFile]

\* The wrapper's interactive branch after index.js has returned
InteractivePostProcess(st, profFile, credFile) ==
  LET selected_profile == ReadSelectedProfile(profFile)
  IN  IF selected_profile = <<>>
      THEN [st |-> Unset(Unset(st, "AWS_PROFILE"), "AWS_DEFAULT_PROFILE"),
            stdout |-> <<>>, credentialsFile |-> credFile]
      ELSE IF Exists(credFile)
      THEN process_credentials_file("silent", st, credFile)
      ELSE [st |-> Export(Export(st, "AWS_PROFILE", selected_profile),
                          "AWS_DEFAULT_PROFILE", selected_profile),
            stdout |-> <<<<"set profile: ">> \o selected_profile>>,
            credentialsFile |-> credFile]

----------------------------------------------------------------------------
(* The inputs of a run *)

Opt(f, a) == [flag |-> f, arg |-> a]
Args(opts, pos) == [opts |-> opts, pos |-> pos]

SixDigits == <<"1", "2", "3", "4", "5", "6">>
ValidArn ==
  <<"arn:aws:iam::", "1", "2", "3", "4", "5", "6", "7", "8", "9", "0", "1", "2",
    ":role/", "M", "y", "R", "o", "l", "e">>
\* eleven account digits: not a role ARN
ShortArn ==
  <<"arn:aws:iam::", "1", "2", "3", "4", "5", "6", "7", "8", "9", "0", "1",
    ":role/", "M", "y", "R", "o", "l", "e">>

ArgSamples ==
  { Args(<<>>, <<>>),
    Args(<<>>, <<<<"dev">>>>),
    Args(<<Opt("m", SixDigits)>>, <<<<"dev">>>>),
    Args(<<>>, <<ValidArn>>),
    Args(<<Opt("m", SixDigits)>>, <<ValidArn>>),
    Args(<<Opt("p", <<"src">>)>>, <<ValidArn>>),
    Args(<<Opt("m", SixDigits), Opt("p", <<"src">>)>>, <<ValidArn>>),
    Args(<<>>, <<ShortArn>>),
    Args(<<Opt("x", <<>>)>>, <<>>) }

\* What the user may type at the MFA prompt
MfaSamples ==
  { SixDigits, <<>>, <<"1", "2", "3", "4", "5">>, <<"1", "2", "3", "4", "5", "6", "7">>,
    <<"1", "2", "3", "4", "5", "a">> }

Heading(name) == <<"[profile ">> \o name \o <<"]">>

ConfigSamples ==
  { NoFile,
    File(<< <<"[", "default", "]">>, <<"region", " = ", "x">> >>),
    File(<< Heading(<<"dev">>), <<"role_arn", " = ", "x">> >>),
    File(<< Heading(<<"dev">>), Heading(<<"default">>) >>),
    File(<< Heading(<<"my", " ", "profile">>), Heading(<<"dev">>) >>) }

Merge(f, g) == [n \in DOMAIN f \cup DOMAIN g |-> IF n \in DOMAIN g THEN g[n] ELSE f[n]]
NoVars == [n \in {} |-> <<>>]

OldCredentials ==
  [AWS_ACCESS_KEY_ID |-> <<"AKIA0">>, AWS_SECRET_ACCESS_KEY |-> <<"SECRET0">>,
   AWS_REGION |-> <<"us-east-1">>, AWS_SESSION_TOKEN |-> <<"TOKEN0">>]

InitialShellVars ==
  { Merge(Merge(p, d), c) :
      p \in {NoVars, [AWS_PROFILE |-> <<"prod">>]},
      d \in {NoVars, [AWS_DEFAULT_PROFILE |-> <<"stage">>]},
      c \in {NoVars, OldCredentials} }

\* A credentials file left behind by an earlier run of index.js
StaleCredentialsFile ==
  File(CredentialsContent([accessKeyId |-> "AKIA9", secretAccessKey |-> "SECRET9",
                           sessionToken |-> "TOKEN9"], <<"stale">>))

----------------------------------------------------------------------------
(* The run *)

\* One invocation at a time: no second shell
NoWriters == [profile |-> 0, credentials |-> 0]
SingleShell == shells = <<>> /\ fileWriter = NoWriters

InitRun ==
  /\ SingleShell
  /\ pc = "start"
  /\ choices = <<>>
  /\ profileChoice = <<>>
  /\ roleQuery = <<>>
  /\ roleCapable = "none"
  /\ mfaInput = <<>>
  /\ mfaValid = "none"
  /\ mfaCode = <<>>
  /\ stsCalls = <<>>
  /\ stsResponse = <<>>
  /\ assumeResult = "none"
  /\ clipboard = NoFile
  /\ stdout = <<>>
  /\ nodeStarted = FALSE
  /\ nodeExit = -1
  /\ exitStatus = -1

Init ==
  /\ wrapper \in Wrappers
  /\ args \in ArgSamples
  /\ shellVars \in InitialShellVars
  /\ exported = DOMAIN shellVars
  /\ awsConfigFile \in ConfigSamples
  /\ profileFile \in {NoFile, File(<<"dev">>)}
  /\ credentialsFile \in {NoFile, StaleCredentialsFile}
  /\ initial = [vars |-> shellVars, exported |-> exported,
                profileFile |-> profileFile, credentialsFile |-> credentialsFile]
  /\ InitRun

nodeVars == <<choices, profileChoice, roleQuery, roleCapable, mfaInput, mfaValid, mfaCode,
              nodeExit>>
inputVars == <<wrapper, args, initial, awsConfigFile>>
shellsVars == <<shells, fileWriter>>

\* The wrapper up to its dispatch: preamble, check_dependencies, getopts and the
\* choice of mode; the plain profile switch is done here
WrapperStart ==
  /\ pc = "start"
  /\ \E depsOk \in BOOLEAN :
       LET st == ScriptPreamble(ShellState(shellVars, exported))
           o == ParseOptions(wrapper, args.opts)
           direct == Export(Export(st, "AWS_PROFILE", args.pos[1]),
                            "AWS_DEFAULT_PROFILE", args.pos[1])
       IN  IF ~depsOk \/ ~o.ok
           THEN /\ pc' = "done" /\ exitStatus' = 1
                /\ shellVars' = st.vars /\ exported' = st.exported
                /\ UNCHANGED <<stdout, nodeStarted>>
           ELSE IF Len(args.pos) >= 1
           THEN IF wrapper = "part_001" /\ is_role_arn(args.pos[1])
                THEN /\ pc' = "assume_arn"
                     /\ shellVars' = st.vars /\ exported' = st.exported
                     /\ UNCHANGED <<stdout, nodeStarted, exitStatus>>
                ELSE IF o.mfa_code # <<>>
                THEN /\ pc' = "assume_mfa"
                     /\ shellVars' = st.vars /\ exported' = st.exported
                     /\ UNCHANGED <<stdout, nodeStarted, exitStatus>>
                ELSE /\ pc' = "done" /\ exitStatus' = 0
                     /\ shellVars' = direct.vars /\ exported' = direct.exported
                     /\ stdout' = Append(stdout, <<"set profile: ">> \o args.pos[1])
                     /\ UNCHANGED nodeStarted
           ELSE /\ pc' = "node_read" /\ nodeStarted' = TRUE
                /\ shellVars' = st.vars /\ exported' = st.exported
                /\ UNCHANGED <<stdout, exitStatus>>
  /\ UNCHANGED <<inputVars, shellsVars, nodeVars, profileFile, credentialsFile, stsCalls, stsResponse,
                 assumeResult, clipboard>>

\* index.js main: readAwsProfiles, promptProfileChoice and the user's selection
ReadAndPrompt ==
  /\ pc = "node_read"
  /\ IF ~Exists(awsConfigFile)
     THEN /\ nodeExit' = 1 /\ pc' = "post"
          /\ UNCHANGED <<choices, profileChoice>>
     ELSE LET c == promptProfileChoice(Content(awsConfigFile))
          IN  /\ choices' = c
              /\ IF c = <<>>
                 THEN /\ nodeExit' = 0 /\ pc' = "post"
                      /\ UNCHANGED profileChoice
                 ELSE /\ \E i \in 1..Len(c) : profileChoice' = <<c[i]>>
                      /\ pc' = "node_write"
                      /\ UNCHANGED nodeExit
  /\ UNCHANGED <<inputVars, shellsVars, shellVars, exported, profileFile, credentialsFile, roleQuery,
                 roleCapable, mfaInput, mfaValid, mfaCode, stsCalls, stsResponse,
                 assumeResult, clipboard, stdout, nodeStarted, exitStatus>>

\* index.js main: writeToConfig
WriteToConfig ==
  /\ pc = "node_write"
  /\ profileFile' = File(profileChoice[1])
  /\ pc' = "node_role"
  /\ UNCHANGED <<inputVars, shellsVars, nodeVars, shellVars, exported, credentialsFile, stsCalls,
                 stsResponse, assumeResult, clipboard, stdout, nodeStarted, exitStatus>>

\* index.js main: hasRoleConfiguration(profileChoice)
HasRoleConfiguration ==
  /\ pc = "node_role"
  /\ \E q1 \in QueryOutcomesFor(profileChoice[1], RoleArnValue),
        q2 \in QueryOutcomesFor(profileChoice[1], MfaSerialValue) :
       /\ roleQuery' = <<q1, q2>>
       /\ IF hasRoleConfiguration(q1, q2)
          THEN /\ roleCapable' = "yes" /\ pc' = "mfa_prompt"
               /\ UNCHANGED nodeExit
          ELSE /\ roleCapable' = "no" /\ pc' = "post"
               /\ nodeExit' = 0
  /\ UNCHANGED <<inputVars, shellsVars, shellVars, exported, profileFile, credentialsFile, choices,
                 profileChoice, mfaInput, mfaValid, mfaCode, stsCalls, stsResponse,
                 assumeResult, clipboard, stdout, nodeStarted, exitStatus>>

\* promptMfaCode: the user types an answer
UserTypesMfa ==
  /\ pc = "mfa_prompt"
  /\ \E v \in MfaSamples : mfaInput' = v
  /\ mfaValid' = "none"
  /\ pc' = "mfa_validate"
  /\ UNCHANGED <<inputVars, shellsVars, shellVars, exported, profileFile, credentialsFile, choices,
                 profileChoice, roleQuery, roleCapable, mfaCode, stsCalls, stsResponse,
                 assumeResult, clipboard, stdout, nodeStarted, nodeExit, exitStatus>>

\* promptMfaCode: inquirer runs validate and asks again unless it returns true
ValidateMfa ==
  /\ pc = "mfa_validate"
  /\ mfaValid' = validate(mfaInput)
  /\ IF validate(mfaInput) = "true"
     THEN mfaCode' = <<mfaInput>> /\ pc' = "node_assume"
     ELSE UNCHANGED mfaCode /\ pc' = "mfa_prompt"
  /\ UNCHANGED <<inputVars, shellsVars, shellVars, exported, profileFile, credentialsFile, choices,
                 profileChoice, roleQuery, roleCapable, mfaInput, stsCalls, stsResponse,
                 assumeResult, clipboard, stdout, nodeStarted, nodeExit, exitStatus>>

\* index.js main: performAssumeRole(profileChoice, mfaAnswer.mfaCode) and the
\* exit that follows it
PerformAssumeRole ==
  /\ pc = "node_assume"
  /\ \E q1 \in QueryOutcomesFor(profileChoice[1], RoleArnValue),
        q2 \in QueryOutcomesFor(profileChoice[1], MfaSerialValue),
        resp \in StsResponses, clipOk \in BOOLEAN :
       LET r == performAssumeRole(profileChoice[1], mfaCode[1], q1, q2, resp, clipOk,
                                  credentialsFile, clipboard)
       IN  /\ stsCalls' = stsCalls \o r.calls
           /\ stsResponse' = IF r.calls # <<>> THEN <<resp>> ELSE stsResponse
           /\ assumeResult' = IF r.ok THEN "ok" ELSE "failed"
           /\ credentialsFile' = r.credentialsFile
           /\ clipboard' = r.clipboard
           /\ nodeExit' = IF r.ok THEN 0 ELSE 1
  /\ pc' = "post"
  /\ UNCHANGED <<inputVars, shellsVars, shellVars, exported, profileFile, choices, profileChoice,
                 roleQuery, roleCapable, mfaInput, mfaValid, mfaCode, stdout, nodeStarted,
                 exitStatus>>

\* The wrapper's interactive branch after the subprocess returned; its exit
\* status is that of its last command
WrapperPostProcess ==
  /\ pc = "post"
  /\ LET r == InteractivePostProcess(ShellState(shellVars, exported), profileFile,
                                     credentialsFile)
     IN  /\ shellVars' = r.st.vars
         /\ exported' = r.st.exported
         /\ credentialsFile' = r.credentialsFile
         /\ stdout' = stdout \o r.stdout
  /\ exitStatus' = 0
  /\ pc' = "done"
  /\ UNCHANGED <<inputVars, shellsVars, nodeVars, profileFile, stsCalls, stsResponse, assumeResult,
                 clipboard, nodeStarted>>

\* The source profile of the role-ARN mode: -p, else the dispatch's default
SourceProfile(o, v) ==
  IF o.source_profile = <<>> THEN DefaultSourceProfile(v) ELSE o.source_profile

\* A direct mode's function has returned: the wrapper ends with its status
FinishDirect(r, resp) ==
  /\ shellVars' = r.st.vars
  /\ exported' = r.st.exported
  /\ stdout' = stdout \o r.stdout
  /\ stsCalls' = stsCalls \o r.calls
  /\ stsResponse' = IF r.calls # <<>> THEN <<resp>> ELSE stsResponse
  /\ assumeResult' = IF r.status = 0 THEN "ok" ELSE "failed"
  /\ clipboard' = r.clipboard
  /\ exitStatus' = r.status
  /\ pc' = "done"
  /\ UNCHANGED <<inputVars, shellsVars, nodeVars, profileFile, credentialsFile, nodeStarted>>

\* -m CODE PROFILE: assume_role_with_mfa "$profile" "$mfa_code"
AssumeRoleWithMfa ==
  /\ pc = "assume_mfa"
  /\ \E q1 \in QueryOutcomesFor(args.pos[1], RoleArnValue),
        q2 \in QueryOutcomesFor(args.pos[1], MfaSerialValue),
        resp \in StsResponses, clipOk \in BOOLEAN :
       FinishDirect(assume_role_with_mfa(wrapper, args.pos[1],
                                         ParseOptions(wrapper, args.opts).mfa_code,
                                         q1, q2, resp, clipOk,
                                         ShellState(shellVars, exported), clipboard),
                    resp)

\* ROLE_ARN: assume_role_with_arn "$argument" "$source_profile" "$mfa_code"
AssumeRoleWithArn ==
  /\ pc = "assume_arn"
  /\ LET o == ParseOptions(wrapper, args.opts)
         source == SourceProfile(o, shellVars)
     IN  \E q1 \in QueryOutcomesFor(source, MfaSerialValue),
            q2 \in QueryOutcomes(MfaSerialValue),
            resp \in StsResponses, clipOk \in BOOLEAN :
           FinishDirect(assume_role_with_arn(args.pos[1], source, o.mfa_code,
                                             q1, q2, resp, clipOk,
                                             ShellState(shellVars, exported), clipboard),
                        resp)

Next ==
  \/ WrapperStart
  \/ ReadAndPrompt
  \/ WriteToConfig
  \/ HasRoleConfiguration
  \/ UserTypesMfa
  \/ ValidateMfa
  \/ PerformAssumeRole
  \/ WrapperPostProcess
  \/ AssumeRoleWithMfa
  \/ AssumeRoleWithArn

Spec == Init /\ [][Next]_vars

----------------------------------------------------------------------------
(* Specification for the choice list: the interactive run over every config *)
(* file of at most MaxLines lines of at most MaxLineLen atoms                *)

MaxLineLen == 3
MaxLines == 2
ConfigAtoms == {"[profile ", "]", "dev", "default"}
ConfigLines == UNION {[1..n -> ConfigAtoms] : n \in 0..MaxLineLen}
Configs == UNION {[1..n -> ConfigLines] : n \in 0..MaxLines}

InitChoices ==
  /\ wrapper = "run.sh"
  /\ args = Args(<<>>, <<>>)
  /\ shellVars = NoVars
  /\ exported = {}
  /\ awsConfigFile \in {File(c) : c \in Configs}
  /\ profileFile = NoFile
  /\ credentialsFile = NoFile
  /\ initial = [vars |-> shellVars, exported |-> exported,
                profileFile |-> profileFile, credentialsFile |-> credentialsFile]
  /\ InitRun

NextChoices == WrapperStart \/ ReadAndPrompt \/ WriteToConfig

SpecChoices == InitChoices /\ [][NextChoices]_vars

----------------------------------------------------------------------------
(* Claims *)

\* The exported environment of a shell state, over the given names
Environment(v, e, names) == [n \in (names \cap e \cap DOMAIN v) |-> v[n]]

InteractiveRun == args.pos = <<>> /\ nodeStarted

HasNoHeading(data) == \A i \in 1..Len(data) : "[profile " \notin Range(data[i])

SecretVars == {"AWS_ACCESS_KEY_ID", "AWS_SECRET_ACCESS_KEY", "AWS_SESSION_TOKEN"}

\* C1: when the config file has no [profile ...] heading, an interactive run
\* makes no selection and ends with the exported AWS_PROFILE,
\* AWS_DEFAULT_PROFILE and credential variables as they were at invocation,
\* whatever ~/.awsp and ~/.awsp-credentials held.
C1_NoHeadingLeavesEnvironment ==
  (/\ pc = "done"
   /\ InteractiveRun
   /\ Exists(awsConfigFile)
   /\ HasNoHeading(Content(awsConfigFile)))
  => /\ profileChoice = <<>>
     /\ Environment(shellVars, exported, ProfileVars \cup SecretVars)
          = Environment(initial.vars, initial.exported, ProfileVars \cup SecretVars)

\* A line that is exactly one heading [profile NAME], NAME free of brackets
IsHeading(line) ==
  /\ Len(line) >= 3
  /\ line[1] = "[profile "
  /\ line[Len(line)] = "]"
  /\ \A i \in 2..(Len(line) - 1) : line[i] \notin {"[profile ", "]"}

HeadingName(line) == SubSeq(line, 2, Len(line) - 1)

HeadingLines(data) == {i \in 1..Len(data) : IsHeading(data[i])}

\* Every line is one heading or holds no heading prefix, and no heading repeats
DistinctHeadings(data) ==
  /\ \A i \in 1..Len(data) : IsHeading(data[i]) \/ "[profile " \notin Range(data[i])
  /\ \A i, j \in HeadingLines(data) :
       HeadingName(data[i]) = HeadingName(data[j]) => i = j

NoDuplicates(s) == \A i, j \in 1..Len(s) : s[i] = s[j] => i = j

\* C2: for a config file with N >= 1 distinct [profile NAME] headings the
\* choice list has exactly N+1 entries, the N names plus "default", and no
\* entry twice, also when one heading is [profile default].
C2_ChoiceListDistinct ==
  (/\ pc = "node_write"
   /\ DistinctHeadings(Content(awsConfigFile))
   /\ HeadingLines(Content(awsConfigFile)) # {})
  => LET data == Content(awsConfigFile)
         names == {HeadingName(data[i]) : i \in HeadingLines(data)}
     IN  /\ Len(choices) = Cardinality(names) + 1
         /\ Range(choices) = names \cup {<<"default">>}
         /\ NoDuplicates(choices)

----------------------------------------------------------------------------
(* Specification for the MFA prompt: the interactive run stands at the       *)
(* prompt of a role-capable profile and the user has typed any text of at    *)
(* most MaxCodeLen characters                                                *)

MaxCodeLen == 7
\* two ASCII digits, a letter, and ARABIC-INDIC DIGIT THREE
CodeAtoms == {"0", "7", "a", "u0663"}
Codes == UNION {[1..n -> CodeAtoms] : n \in 0..MaxCodeLen}

RoleProfileConfig == File(<< Heading(<<"dev">>), <<"role_arn", " = ", "x">> >>)

InitMfa ==
  /\ wrapper = "run.sh"
  /\ args = Args(<<>>, <<>>)
  /\ shellVars = ScriptPreamble(ShellState(NoVars, {})).vars
  /\ exported = {}
  /\ awsConfigFile = RoleProfileConfig
  /\ profileFile = File(<<"dev">>)
  /\ credentialsFile = NoFile
  /\ initial = [vars |-> NoVars, exported |-> {},
                profileFile |-> NoFile, credentialsFile |-> NoFile]
  /\ SingleShell
  /\ pc = "mfa_validate"
  /\ choices = promptProfileChoice(Content(RoleProfileConfig))
  /\ profileChoice = <<<<"dev">>>>
  /\ roleQuery = <<[ok |-> TRUE, out |-> <<RoleArnValue, "\n">>],
                   [ok |-> TRUE, out |-> <<MfaSerialValue, "\n">>]>>
  /\ roleCapable = "yes"
  /\ mfaInput \in Codes
  /\ mfaValid = "none"
  /\ mfaCode = <<>>
  /\ stsCalls = <<>>
  /\ stsResponse = <<>>
  /\ assumeResult = "none"
  /\ clipboard = NoFile
  /\ stdout = <<>>
  /\ nodeStarted = TRUE
  /\ nodeExit = -1
  /\ exitStatus = -1

NextMfa == ValidateMfa \/ UserTypesMfa \/ PerformAssumeRole

SpecMfa == InitMfa /\ [][NextMfa]_vars

IsSixAsciiDigits(s) ==
  /\ Len(s) = 6
  /\ \A i \in 1..Len(s) : s[i] \in {"0", "1", "2", "3", "4", "5", "6", "7", "8", "9"}

\* C3: validate returns true exactly for a text of exactly 6 ASCII digits and
\* the rejection message for every other text, so the interactive flow hands
\* performAssumeRole nothing but a 6-digit code.
C3_MfaCodeValidation ==
  /\ mfaValid # "none" =>
       IF IsSixAsciiDigits(mfaInput) THEN mfaValid = "true" ELSE mfaValid = RejectMessage
  /\ mfaCode # <<>> => IsSixAsciiDigits(mfaCode[1])
  /\ \A i \in 1..Len(stsCalls) :
       stsCalls[i].client = "index.js" =>
         /\ stsCalls[i].mfa # NoSerial
         /\ IsSixAsciiDigits(stsCalls[i].mfa[1].token)

\* A typed 6-digit code was accepted and went out in the AssumeRole call
C3_Witness ==
  /\ mfaValid = "true"
  /\ Len(mfaInput) = 6
  /\ stsCalls # <<>>
  /\ stsCalls[1].mfa[1].token = mfaInput

HasText(out) == \E i \in 1..Len(out) : out[i] \notin {" ", "\n"}

\* C4: hasRoleConfiguration is truthy only when the role_arn query and the
\* mfa_serial query both succeed with non-empty values; otherwise the profile
\* is not assume-role-capable, no MFA prompt and no AssumeRole call happen, and
\* index.js ends without a fatal error.
C4_RoleCapability ==
  roleQuery # <<>> =>
    LET both == /\ roleQuery[1].ok /\ HasText(roleQuery[1].out)
                /\ roleQuery[2].ok /\ HasText(roleQuery[2].out)
    IN  /\ roleCapable = "yes" => both
        /\ ~both =>
             /\ roleCapable = "no"
             /\ pc \in {"post", "done"}
             /\ mfaValid = "none" /\ mfaCode = <<>>
             /\ stsCalls = <<>> /\ assumeResult = "none"
             /\ nodeExit = 0

\* role_arn is configured and mfa_serial is not: the run ended without a prompt
C4_Witness ==
  /\ pc = "done"
  /\ roleQuery # <<>>
  /\ roleQuery[1].ok /\ HasText(roleQuery[1].out)
  /\ roleQuery[2].ok /\ ~HasText(roleQuery[2].out)
  /\ roleCapable = "no"
  /\ nodeExit = 0

HasAllCredentialFields(resp) ==
  /\ resp.exit = 0
  /\ resp.body.json
  /\ "Credentials" \in DOMAIN resp.body.value
  /\ {"AccessKeyId", "SecretAccessKey", "SessionToken"}
       \subseteq DOMAIN resp.body.value["Credentials"]

\* C5: after a successful performAssumeRole(profile, code) whose response
\* carries AccessKeyId A, SecretAccessKey S and SessionToken T,
\* ~/.awsp-credentials holds exactly the six export lines, in order,
\* AWS_ACCESS_KEY_ID=A, AWS_SECRET_ACCESS_KEY=S, AWS_REGION=ap-northeast-1,
\* AWS_SESSION_TOKEN=T, AWS_PROFILE=profile, AWS_DEFAULT_PROFILE=profile,
\* whatever the file held before.
C5_CredentialsFileContent ==
  (/\ pc = "post"
   /\ assumeResult = "ok"
   /\ stsResponse # <<>>
   /\ HasAllCredentialFields(stsResponse[1]))
  => LET c == stsResponse[1].body.value["Credentials"]
         profile == profileChoice[1]
     IN  credentialsFile =
           << << <<"export", " ", "AWS_ACCESS_KEY_ID", "=", c["AccessKeyId"]>>,
                 <<"export", " ", "AWS_SECRET_ACCESS_KEY", "=", c["SecretAccessKey"]>>,
                 <<"export", " ", "AWS_REGION", "=", "ap-northeast-1">>,
                 <<"export", " ", "AWS_SESSION_TOKEN", "=", c["SessionToken"]>>,
                 <<"export", " ", "AWS_PROFILE", "=">> \o profile,
                 <<"export", " ", "AWS_DEFAULT_PROFILE", "=">> \o profile >> >>

\* performAssumeRole succeeded over a credentials file left by an earlier run
C5_Witness ==
  /\ pc = "post"
  /\ assumeResult = "ok"
  /\ stsResponse # <<>>
  /\ HasAllCredentialFields(stsResponse[1])
  /\ initial.credentialsFile = StaleCredentialsFile
  /\ credentialsFile # initial.credentialsFile

\* The text after `export NAME=` on the file's line for NAME
HasLineFor(lines, name) ==
  \E i \in 1..Len(lines) : SubSeq(lines[i], 1, 4) = <<"export", " ", name, "=">>

ValueOnLine(lines, name) ==
  LET i == CHOOSE k \in 1..Len(lines) : SubSeq(lines[k], 1, 4) = <<"export", " ", name, "=">>
  IN  SubSeq(lines[i], 5, Len(lines[i]))

IsExportedAs(v, e, name, value) == name \in e /\ name \in DOMAIN v /\ v[name] = value

ProfileNameIn(file) == IF Exists(file) THEN Content(file) ELSE <<>>

\* The wrapper's interactive branch runs from the subprocess's return to its end
PostProcessStep == pc = "post" /\ pc' = "done"

\* C6: whenever the wrapper's interactive branch consumes an existing
\* ~/.awsp-credentials (process_credentials_file), the file is gone afterwards
\* and the exported AWS_PROFILE and AWS_DEFAULT_PROFILE both equal the profile
\* name on the file's AWS_PROFILE line.
C6_ConsumedFileSetsProfile ==
  [][(PostProcessStep /\ ProfileNameIn(profileFile) # <<>> /\ Exists(credentialsFile))
     => /\ credentialsFile' = NoFile
        /\ HasLineFor(Content(credentialsFile), "AWS_PROFILE")
        /\ IsExportedAs(shellVars', exported', "AWS_PROFILE",
                        ValueOnLine(Content(credentialsFile), "AWS_PROFILE"))
        /\ IsExportedAs(shellVars', exported', "AWS_DEFAULT_PROFILE",
                        ValueOnLine(Content(credentialsFile), "AWS_PROFILE"))]_vars

\* The file written in this run was consumed: it is gone and the shell runs
\* under the selected profile with the new credentials
C6_Witness ==
  /\ pc = "done"
  /\ assumeResult = "ok"
  /\ InteractiveRun
  /\ credentialsFile = NoFile
  /\ IsExportedAs(shellVars, exported, "AWS_PROFILE", profileChoice[1])
  /\ IsExportedAs(shellVars, exported, "AWS_DEFAULT_PROFILE", profileChoice[1])
  /\ IsExportedAs(shellVars, exported, "AWS_ACCESS_KEY_ID", <<"AKIA1">>)

SameVariable(v, e, w, f, name) ==
  /\ (name \in DOMAIN v) = (name \in DOMAIN w)
  /\ name \in DOMAIN v => v[name] = w[name]
  /\ (name \in e) = (name \in f)

\* C7: in the interactive branch, after the subprocess returned, exactly one of
\* three outcomes occurs. (1) ~/.awsp names no profile: AWS_PROFILE and
\* AWS_DEFAULT_PROFILE are unset and the credentials file is not touched.
\* (2) A profile is named and the credentials file exists: its contents are
\* evaluated into the shell and the file is deleted. (3) A profile is named
\* and there is no credentials file: AWS_PROFILE and AWS_DEFAULT_PROFILE are
\* exported as that name and no credential variable changes.
C7_PostProcessOutcomes ==
  [][PostProcessStep =>
       LET name == ProfileNameIn(profileFile)
           sixVars == {"AWS_ACCESS_KEY_ID", "AWS_SECRET_ACCESS_KEY", "AWS_REGION",
                       "AWS_SESSION_TOKEN", "AWS_PROFILE", "AWS_DEFAULT_PROFILE"}
           credVars == {"AWS_ACCESS_KEY_ID", "AWS_SECRET_ACCESS_KEY", "AWS_REGION",
                        "AWS_SESSION_TOKEN"}
       IN  /\ name = <<>> =>
                /\ "AWS_PROFILE" \notin DOMAIN shellVars'
                /\ "AWS_DEFAULT_PROFILE" \notin DOMAIN shellVars'
                /\ credentialsFile' = credentialsFile
                /\ \A n \in credVars : SameVariable(shellVars', exported', shellVars, exported, n)
           /\ (name # <<>> /\ Exists(credentialsFile)) =>
                /\ credentialsFile' = NoFile
                /\ \A n \in sixVars :
                     HasLineFor(Content(credentialsFile), n) =>
                       IsExportedAs(shellVars', exported', n,
                                    ValueOnLine(Content(credentialsFile), n))
                /\ \A n \in sixVars :
                     ~HasLineFor(Content(credentialsFile), n) =>
                       SameVariable(shellVars', exported', shellVars, exported, n)
           /\ (name # <<>> /\ ~Exists(credentialsFile)) =>
                /\ IsExportedAs(shellVars', exported', "AWS_PROFILE", name)
                /\ IsExportedAs(shellVars', exported', "AWS_DEFAULT_PROFILE", name)
                /\ credentialsFile' = NoFile
                /\ \A n \in credVars : SameVariable(shellVars', exported', shellVars, exported, n)
  ]_vars

\* Outcome (3) over credentials exported before the run: the selected profile
\* that is not role-capable is exported and the old credentials stay
C7_Witness ==
  /\ pc = "done"
  /\ InteractiveRun
  /\ roleCapable = "no"
  /\ credentialsFile = NoFile /\ initial.credentialsFile = NoFile
  /\ IsExportedAs(shellVars, exported, "AWS_PROFILE", profileChoice[1])
  /\ IsExportedAs(shellVars, exported, "AWS_DEFAULT_PROFILE", profileChoice[1])
  /\ IsExportedAs(shellVars, exported, "AWS_ACCESS_KEY_ID", <<"AKIA0">>)
  /\ IsExportedAs(initial.vars, initial.exported, "AWS_PROFILE", <<"prod">>)

\* The AWS CLI call of the run ended with a non-zero status
AwsCliFailed == stsResponse # <<>> /\ stsResponse[1].exit # 0

InvalidOption == \E i \in 1..Len(args.opts) : args.opts[i].flag \notin OptString(wrapper)

\* C8: the tool's exit status is non-zero on any AssumeRole failure and on any
\* invalid option, in the interactive mode, the -m CODE PROFILE mode and the
\* role-ARN mode.
C8_FailureExitsNonZero ==
  (pc = "done" /\ (AwsCliFailed \/ InvalidOption)) => exitStatus # 0

\* The three failure kinds of an AssumeRole response
FailedResponse(resp) ==
  \/ resp.exit # 0
  \/ ~resp.body.json
  \/ "Credentials" \notin DOMAIN resp.body.value
  \/ \E k \in {"AccessKeyId", "SecretAccessKey", "SessionToken"} :
       k \notin DOMAIN resp.body.value["Credentials"]

IsExportText(line) == Len(line) >= 1 /\ line[1] = "export"

\* The role assumption client has returned and nothing has consumed its output
ClientReturned == pc = "post" \/ (pc = "done" /\ ~nodeStarted)

\* C9: for each AssumeRole failure kind (non-zero exit of the AWS CLI, a
\* response that is not valid JSON, a response missing one of the three
\* credential fields) the role assumption client signals failure, leaves
\* ~/.awsp-credentials as it was, echoes no export line and makes no second
\* AssumeRole call.
C9_FailedAssumeRoleHasNoEffect ==
  (ClientReturned /\ stsResponse # <<>> /\ FailedResponse(stsResponse[1]))
  => /\ assumeResult = "failed"
     /\ credentialsFile = initial.credentialsFile
     /\ \A i \in 1..Len(stdout) : ~IsExportText(stdout[i])
     /\ Len(stsCalls) = 1

\* The positional argument matches arn:aws:iam::<12 digits>:role/<chars>
MatchesRoleArnPattern(a) ==
  /\ Len(a) >= 15
  /\ a[1] = "arn:aws:iam::"
  /\ \A i \in 2..13 : a[i] \in {"0", "1", "2", "3", "4", "5", "6", "7", "8", "9"}
  /\ a[14] = ":role/"
  /\ \A i \in 15..Len(a) : a[i] \in ArnRoleChars

HasOption(f) == \E i \in 1..Len(args.opts) : args.opts[i].flag = f
OptionArg(f) ==
  args.opts[CHOOSE i \in 1..Len(args.opts) :
              args.opts[i].flag = f /\ \A k \in (i + 1)..Len(args.opts) : args.opts[k].flag # f].arg

\* A run of the wrapper with role-ARN support on a role-ARN argument
RoleArnRun ==
  /\ wrapper = "part_001"
  /\ Len(args.pos) >= 1
  /\ MatchesRoleArnPattern(args.pos[1])
  /\ ~InvalidOption

\* With -m CODE every AssumeRole call carries a serial number and the code
MfaParametersIncluded ==
  HasOption("m") =>
    \A i \in 1..Len(stsCalls) :
      /\ stsCalls[i].mfa # NoSerial
      /\ stsCalls[i].mfa[1].serial # <<>>
      /\ stsCalls[i].mfa[1].token = OptionArg("m")

\* The role assumption function ran: it made its one call, unless -m was given
\* and no MFA serial number is configured
ArnCallMade ==
  (pc = "done" /\ assumeResult # "none") =>
    /\ Len(stsCalls) <= 1
    /\ ~HasOption("m") => Len(stsCalls) = 1
    /\ \A i \in 1..Len(stsCalls) : stsCalls[i].roleArn = args.pos[1]

\* C10 as claimed: given a role-ARN argument the wrapper never runs the
\* interactive subprocess; with no -m and no -p it calls AssumeRole with the
\* source profile "default" and without --serial-number/--token-code; with
\* -m CODE the call includes the MFA serial number and the token code CODE.
C10_Original ==
  RoleArnRun =>
    /\ ~nodeStarted
    /\ ArnCallMade
    /\ (~HasOption("m") /\ ~HasOption("p")) =>
         \A i \in 1..Len(stsCalls) :
           stsCalls[i].profile = <<"default">> /\ stsCalls[i].mfa = NoSerial
    /\ MfaParametersIncluded

InitialValue(name) == IF name \in DOMAIN initial.vars THEN initial.vars[name] ELSE <<>>

\* C10 as amended: given a role-ARN argument the wrapper never runs the
\* interactive subprocess; with no -m and no -p it calls AssumeRole without
\* --serial-number/--token-code and with the source profile $AWS_PROFILE when
\* that is set and not empty, else $AWS_DEFAULT_PROFILE when that is set and
\* not empty, else "default"; with -m CODE the call includes the MFA serial
\* number and the token code CODE.
C10_RoleArnDispatch ==
  RoleArnRun =>
    /\ ~nodeStarted
    /\ ArnCallMade
    /\ (~HasOption("m") /\ ~HasOption("p")) =>
         \A i \in 1..Len(stsCalls) :
           /\ stsCalls[i].mfa = NoSerial
           /\ stsCalls[i].profile =
                IF InitialValue("AWS_PROFILE") # <<>> THEN InitialValue("AWS_PROFILE")
                ELSE IF InitialValue("AWS_DEFAULT_PROFILE") # <<>>
                     THEN InitialValue("AWS_DEFAULT_PROFILE")
                     ELSE <<"default">>
    /\ MfaParametersIncluded

\* A role ARN alone, with AWS_PROFILE unset and AWS_DEFAULT_PROFILE=stage: the
\* role was assumed from the source profile stage, without MFA parameters
C10_Witness ==
  /\ RoleArnRun
  /\ pc = "done"
  /\ ~HasOption("m") /\ ~HasOption("p")
  /\ assumeResult = "ok"
  /\ Len(stsCalls) = 1
  /\ stsCalls[1].profile = <<"stage">>
  /\ stsCalls[1].mfa = NoSerial
  /\ ~nodeStarted

\* A direct (non-interactive) role assumption ended in success on a response
\* that carries the three credential fields
DirectSuccess ==
  /\ pc = "done"
  /\ ~nodeStarted
  /\ assumeResult = "ok"
  /\ stsResponse # <<>>
  /\ HasAllCredentialFields(stsResponse[1])

EchoedLine(name, value) ==
  \E i \in 1..Len(stdout) : stdout[i] = <<"export", " ", name, "=", value>>

ClipboardCopied ==
  \E i \in 1..Len(stdout) :
    stdout[i] \in {<<"Credentials copied to clipboard">>,
                   <<"Successfully assumed role (credentials copied to clipboard)">>}

\* C11: on every successful direct role assumption, by a role-ARN argument and
\* by -m CODE PROFILE, the wrapper echoes export lines for the credential
\* variables (for eval) and copies the credentials to the clipboard.
C11_DirectSuccessEchoesExports ==
  DirectSuccess =>
    LET c == stsResponse[1].body.value["Credentials"]
    IN  /\ EchoedLine("AWS_ACCESS_KEY_ID", c["AccessKeyId"])
        /\ EchoedLine("AWS_SECRET_ACCESS_KEY", c["SecretAccessKey"])
        /\ EchoedLine("AWS_SESSION_TOKEN", c["SessionToken"])
        /\ ClipboardCopied =>
             clipboard = << << <<"AWS_ACCESS_KEY_ID", "=", c["AccessKeyId"]>>,
                               <<"AWS_SECRET_ACCESS_KEY", "=", c["SecretAccessKey"]>>,
                               <<"AWS_REGION", "=", "ap-northeast-1">>,
                               <<"AWS_SESSION_TOKEN", "=", c["SessionToken"]>> >> >>

\* An interactive run that began over a credentials file left by an earlier
\* run, in which a profile was selected and no new credentials were written
StaleFileRun ==
  /\ InteractiveRun
  /\ initial.credentialsFile # NoFile
  /\ profileChoice # <<>>
  /\ profileChoice[1] # <<>>
  /\ (roleCapable = "no" \/ assumeResult = "failed")

\* C12: a ~/.awsp-credentials left over from an earlier run is consumed by the
\* next interactive run: when the selected profile is not assume-role-capable,
\* or AssumeRole fails, the wrapper still evaluates the stale file and ends
\* with the AWS_PROFILE and the credential variables of that file, not with
\* the profile selected in this run; nothing in the tool prevents it.
C12_StaleFileConsumed ==
  (pc = "done" /\ StaleFileRun) =>
    LET stale == Content(initial.credentialsFile)
    IN  /\ credentialsFile = NoFile
        /\ \A n \in {"AWS_PROFILE", "AWS_DEFAULT_PROFILE", "AWS_ACCESS_KEY_ID",
                     "AWS_SECRET_ACCESS_KEY", "AWS_SESSION_TOKEN"} :
             IsExportedAs(shellVars, exported, n, ValueOnLine(stale, n))

\* The user selected dev, which is not role-capable, and the shell ended under
\* the stale file's profile and credentials
C12_Witness ==
  /\ pc = "done"
  /\ StaleFileRun
  /\ roleCapable = "no"
  /\ profileChoice[1] = <<"dev">>
  /\ profileFile = File(<<"dev">>)
  /\ IsExportedAs(shellVars, exported, "AWS_PROFILE", <<"stale">>)
  /\ IsExportedAs(shellVars, exported, "AWS_ACCESS_KEY_ID", <<"AKIA9">>)

----------------------------------------------------------------------------
(* Two interactive invocations running at once from two shells of one user *)

Shells == {1, 2}
Other(s) == CHOOSE o \in Shells : o # s

\* The credentials aws sts assume-role issues for the role of a profile
IssuedCredentials(profile) ==
  IF profile = <<"dev">>
  THEN [AccessKeyId |-> "AKIA-dev", SecretAccessKey |-> "SECRET-dev",
        SessionToken |-> "TOKEN-dev"]
  ELSE [AccessKeyId |-> "AKIA-default", SecretAccessKey |-> "SECRET-default",
        SessionToken |-> "TOKEN-default"]

IssuedResponses(profile) ==
  {[exit |-> 255, body |-> Malformed],
   [exit |-> 0, body |-> Json([Credentials |-> IssuedCredentials(profile)])]}

\* A shell before its invocation. choice is the selection made in its
\* index.js, selected the wrapper's $selected_profile; readFrom and evalFrom
\* record whose ~/.awsp it read and whose ~/.awsp-credentials it evaluated.
NewShell ==
  [pc |-> "start", vars |-> NoVars, exported |-> {}, choice |-> <<>>,
   selected |-> <<>>, readFrom |-> 0, evalFrom |-> 0, outcome |-> "none"]

InitTwoShells ==
  /\ shells = [s \in Shells |-> NewShell]
  /\ fileWriter = NoWriters
  /\ awsConfigFile = RoleProfileConfig
  /\ profileFile = NoFile
  /\ credentialsFile = NoFile
  /\ clipboard = NoFile
  /\ wrapper = "run.sh"
  /\ args = Args(<<>>, <<>>)
  /\ shellVars = NoVars
  /\ exported = {}
  /\ initial = [vars |-> NoVars, exported |-> {},
                profileFile |-> NoFile, credentialsFile |-> NoFile]
  /\ pc = "shells"
  /\ choices = <<>>
  /\ profileChoice = <<>>
  /\ roleQuery = <<>>
  /\ roleCapable = "none"
  /\ mfaInput = <<>>
  /\ mfaValid = "none"
  /\ mfaCode = <<>>
  /\ stsCalls = <<>>
  /\ stsResponse = <<>>
  /\ assumeResult = "none"
  /\ stdout = <<>>
  /\ nodeStarted = FALSE
  /\ nodeExit = -1
  /\ exitStatus = -1

\* Everything but the two shells and what they share
runVars == <<wrapper, args, pc, shellVars, exported, initial, awsConfigFile, choices,
             profileChoice, roleQuery, roleCapable, mfaInput, mfaValid, mfaCode,
             stsCalls, stsResponse, assumeResult, stdout, nodeStarted, nodeExit,
             exitStatus>>

ShellStateOf(s) == ShellState(shells[s].vars, shells[s].exported)

\* The sourced wrapper up to the start of index.js
ShellStart(s) ==
  /\ shells[s].pc = "start"
  /\ LET st == ScriptPreamble(ShellStateOf(s))
     IN  shells' = [shells EXCEPT ![s].pc = "node_read", ![s].vars = st.vars,
                                  ![s].exported = st.exported]
  /\ UNCHANGED <<runVars, fileWriter, profileFile, credentialsFile, clipboard>>

\* index.js main: readAwsProfiles, promptProfileChoice and the user's selection
ShellSelect(s) ==
  /\ shells[s].pc = "node_read"
  /\ LET c == promptProfileChoice(Content(awsConfigFile))
     IN  \E i \in 1..Len(c) :
           shells' = [shells EXCEPT ![s].pc = "node_write", ![s].choice = <<c[i]>>]
  /\ UNCHANGED <<runVars, fileWriter, profileFile, credentialsFile, clipboard>>

\* writeToConfig: fs.writeFileSync of ~/.awsp
ShellWriteToConfig(s) ==
  /\ shells[s].pc = "node_write"
  /\ profileFile' = File(shells[s].choice[1])
  /\ fileWriter' = [fileWriter EXCEPT !.profile = s]
  /\ shells' = [shells EXCEPT ![s].pc = "node_role"]
  /\ UNCHANGED <<runVars, credentialsFile, clipboard>>

\* hasRoleConfiguration(profileChoice)
ShellHasRoleConfiguration(s) ==
  /\ shells[s].pc = "node_role"
  /\ \E q1 \in QueryOutcomesFor(shells[s].choice[1], RoleArnValue),
        q2 \in QueryOutcomesFor(shells[s].choice[1], MfaSerialValue) :
       shells' = [shells EXCEPT ![s].pc = IF hasRoleConfiguration(q1, q2)
                                          THEN "node_assume" ELSE "post_read"]
  /\ UNCHANGED <<runVars, fileWriter, profileFile, credentialsFile, clipboard>>

\* promptMfaCode answered with a code that passes validate, then
\* performAssumeRole: fs.writeFileSync of ~/.awsp-credentials on success. The
\* wrapper does not look at the exit status of index.js.
ShellPerformAssumeRole(s) ==
  /\ shells[s].pc = "node_assume"
  /\ \E q1 \in QueryOutcomesFor(shells[s].choice[1], RoleArnValue),
        q2 \in QueryOutcomesFor(shells[s].choice[1], MfaSerialValue),
        resp \in IssuedResponses(shells[s].choice[1]), clipOk \in BOOLEAN :
       LET r == performAssumeRole(shells[s].choice[1], SixDigits, q1, q2, resp, clipOk,
                                  credentialsFile, clipboard)
       IN  /\ credentialsFile' = r.credentialsFile
           /\ clipboard' = r.clipboard
           /\ fileWriter' = IF r.ok THEN [fileWriter EXCEPT !.credentials = s]
                            ELSE fileWriter
  /\ shells' = [shells EXCEPT ![s].pc = "post_read"]
  /\ UNCHANGED <<runVars, profileFile>>

\* The read of ~/.awsp replaced by the shell's own selection
ShellReadProfileOwn(s) ==
  /\ shells[s].pc = "post_read"
  /\ shells' = [shells EXCEPT ![s].pc = "post_test",
                              ![s].selected = shells[s].choice[1],
                              ![s].readFrom = fileWriter.profile]
  /\ UNCHANGED <<runVars, fileWriter, profileFile, credentialsFile, clipboard>>

\* selected_profile="$(cat ~/.awsp 2>/dev/null)"
ShellReadProfile(s) ==
  /\ shells[s].pc = "post_read"
  /\ shells' = [shells EXCEPT ![s].pc = "post_test",
                              ![s].selected = ReadSelectedProfile(profileFile),
                              ![s].readFrom = fileWriter.profile]
  /\ UNCHANGED <<runVars, fileWriter, profileFile, credentialsFile, clipboard>>

\* [ -z "$selected_profile" ], then [ -f "$CREDENTIALS_TEMP_FILE" ] and the
\* plain export when there is no file
ShellTestSelection(s) ==
  /\ shells[s].pc = "post_test"
  /\ LET sel == shells[s].selected
         unset == Unset(Unset(ShellStateOf(s), "AWS_PROFILE"), "AWS_DEFAULT_PROFILE")
         plain == Export(Export(ShellStateOf(s), "AWS_PROFILE", sel),
                         "AWS_DEFAULT_PROFILE", sel)
     IN  shells' =
           IF sel = <<>>
           THEN [shells EXCEPT ![s].pc = "done", ![s].outcome = "unset",
                               ![s].vars = unset.vars, ![s].exported = unset.exported]
           ELSE IF Exists(credentialsFile)
           THEN [shells EXCEPT ![s].pc = "process_test"]
           ELSE [shells EXCEPT ![s].pc = "done", ![s].outcome = "export",
                               ![s].vars = plain.vars, ![s].exported = plain.exported]
  /\ UNCHANGED <<runVars, fileWriter, profileFile, credentialsFile, clipboard>>

\* process_credentials_file: if [ -f "$credentials_file" ]
ShellTestCredentialsFile(s) ==
  /\ shells[s].pc = "process_test"
  /\ shells' = IF Exists(credentialsFile)
               THEN [shells EXCEPT ![s].pc = "process_eval"]
               ELSE [shells EXCEPT ![s].pc = "done", ![s].outcome = "skipped"]
  /\ UNCHANGED <<runVars, fileWriter, profileFile, credentialsFile, clipboard>>

\* process_credentials_file: eval "$(cat "$credentials_file")"; cat of a file
\* that is gone prints nothing to evaluate
ShellEvalCredentialsFile(s) ==
  /\ shells[s].pc = "process_eval"
  /\ LET st == process_credentials_file("silent", ShellStateOf(s), credentialsFile).st
     IN  shells' = [shells EXCEPT ![s].pc = "process_rm",
                                  ![s].vars = st.vars, ![s].exported = st.exported,
                                  ![s].evalFrom = fileWriter.credentials,
                                  ![s].outcome = IF Exists(credentialsFile)
                                                 THEN "eval" ELSE "skipped"]
  /\ UNCHANGED <<runVars, fileWriter, profileFile, credentialsFile, clipboard>>

\* process_credentials_file: rm -f "$credentials_file"
ShellRemoveCredentialsFile(s) ==
  /\ shells[s].pc = "process_rm"
  /\ credentialsFile' = NoFile
  /\ fileWriter' = [fileWriter EXCEPT !.credentials = 0]
  /\ shells' = [shells EXCEPT ![s].pc = "done"]
  /\ UNCHANGED <<runVars, profileFile, clipboard>>

NextTwoShells ==
  \E s \in Shells :
    \/ ShellStart(s)
    \/ ShellSelect(s)
    \/ ShellWriteToConfig(s)
    \/ ShellHasRoleConfiguration(s)
    \/ ShellPerformAssumeRole(s)
    \/ ShellReadProfile(s)
    \/ ShellTestSelection(s)
    \/ ShellTestCredentialsFile(s)
    \/ ShellEvalCredentialsFile(s)
    \/ ShellRemoveCredentialsFile(s)

SpecTwoShells == InitTwoShells /\ [][NextTwoShells]_vars

\* The shell's exported variable holds this value
ShellExports(s, name, value) ==
  IsExportedAs(shells[s].vars, shells[s].exported, name, value)

\* The shell ended under this profile with the credentials issued for it
ShellHoldsCredentialsOf(s, profile) ==
  /\ ShellExports(s, "AWS_PROFILE", profile)
  /\ ShellExports(s, "AWS_DEFAULT_PROFILE", profile)
  /\ ShellExports(s, "AWS_ACCESS_KEY_ID", <<IssuedCredentials(profile).AccessKeyId>>)
  /\ ShellExports(s, "AWS_SECRET_ACCESS_KEY", <<IssuedCredentials(profile).SecretAccessKey>>)
  /\ ShellExports(s, "AWS_SESSION_TOKEN", <<IssuedCredentials(profile).SessionToken>>)

\* C13: two concurrent interactive invocations share ~/.awsp and
\* ~/.awsp-credentials without locking. What a shell ends with is decided by
\* the shell that last wrote the file it reads, not by its own selection: it
\* exports the profile the last writer of ~/.awsp selected, or the profile and
\* credentials of the writer of the ~/.awsp-credentials it evaluated, or it
\* exports nothing when the other shell removed that file first. So there is
\* an interleaving in which one shell ends with the profile and credentials
\* selected in the other shell (C13_Witness).
C13_LastWriterDecides ==
  \A s \in Shells :
    shells # <<>> /\ shells[s].pc = "done" =>
      CASE shells[s].outcome = "export" ->
             /\ shells[s].readFrom \in Shells
             /\ ShellExports(s, "AWS_PROFILE", shells[shells[s].readFrom].choice[1])
             /\ ShellExports(s, "AWS_DEFAULT_PROFILE", shells[shells[s].readFrom].choice[1])
        [] shells[s].outcome = "eval" ->
             /\ shells[s].evalFrom \in Shells
             /\ ShellHoldsCredentialsOf(s, shells[shells[s].evalFrom].choice[1])
        [] OTHER ->
             /\ shells[s].outcome = "skipped"
             /\ "AWS_PROFILE" \notin shells[s].exported
             /\ "AWS_ACCESS_KEY_ID" \notin DOMAIN shells[s].vars

\* A shell that selected one profile ended with the profile and the
\* credentials the other shell selected and obtained
C13_Witness ==
  /\ shells # <<>>
  /\ \E s \in Shells :
       /\ shells[s].pc = "done"
       /\ shells[Other(s)].choice # <<>>
       /\ shells[s].choice # shells[Other(s)].choice
       /\ shells[s].evalFrom = Other(s)
       /\ ShellHoldsCredentialsOf(s, shells[Other(s)].choice[1])

====
